---- MODULE Spec2Model ----
(***************************************************************************)
(* A model of the AI-powered MySQL assistant: the generate / validate /    *)
(* repair sequence of QueryGenerator.generate with its two collaborators   *)
(* (AIService.generate_sql, DatabaseManager.explain_query), and the        *)
(* issue detection, scoring, rewriting, index suggestions and the two      *)
(* entry points analyze and optimize of QueryOptimizer; QueryAssistant.ask,*)
(* the connections DatabaseManager takes from its pool, and the schema     *)
(* cache of SchemaAnalyzer.                                                *)
(*                                                                         *)
(* Statement texts are strings; the text operations of the code (strip,    *)
(* upper, lower, startswith, in, replace, the regular expressions) are     *)
(* computed character by character.  An optional value (Python's None) is  *)
(* the empty tuple, a present value v the one-element tuple <<v>>.         *)
(***************************************************************************)
EXTENDS Integers, Sequences, FiniteSets, TLC

VARIABLES
    \* ---- QueryGenerator.generate, one call at a time
    pc,            \* position in generate: Idle, Requested, Validating, Repairing, Done
    mock_mode,     \* AIService.mock_mode, fixed at construction
    description,   \* argument of generate
    schema_context,\* argument of generate
    query,         \* local variable query of generate
    validation,    \* <<>> before _validate_query returned, else <<[is_valid, error]>>
    aiPrompts,     \* prompts passed to ai_service.generate_sql, in order
    aiReturns,     \* texts returned by ai_service.generate_sql, in order
    clientLog,     \* outcome of each remote completion attempt, in order
    validated,     \* texts passed to _validate_query, in order
    explainCalls,  \* [query, failed] per db_manager.explain_query call, in order
    result,        \* <<>> until generate returned, else <<returned text>>
    raised,        \* TRUE iff generate ended by an exception
    \* ---- QueryOptimizer._calculate_query_score
    issues,        \* argument of _calculate_query_score
    score,         \* <<>> until computed, else <<returned score>>
    \* ---- QueryOptimizer._find_issues
    fiQuery,       \* argument query
    fiPlan,        \* argument execution_plan
    fiResult,      \* <<>> before the call, else <<[raised, issues]>>
    \* ---- QueryOptimizer._generate_optimized_query
    rwQuery,       \* argument query
    rwIssues,      \* argument issues
    rwResult,      \* <<>> before the call, else <<returned text>>
    \* ---- QueryOptimizer.suggest_indexes
    ixQuery,       \* argument query
    ixResult,      \* <<>> before the call, else <<returned list of statements>>
    \* ---- QueryOptimizer.analyze and QueryOptimizer.optimize
    opCall,        \* <<>> before a call, else <<[op, query, explain, plan, client]>>
    opResult,      \* <<>> before a call, else <<[raised, report, calls]>>
    setOrders,     \* iteration orders of the sets this process has iterated over
    \* ---- QueryAssistant.ask
    askCall,       \* <<>> before a call, else <<the question and the collaborators' answers>>
    askResult,     \* <<>> before a call, else <<the dict returned>>
    \* ---- DatabaseManager and its connection pool
    checked_out,   \* number of pool connections obtained and not closed
    dbCall,        \* <<>> before a call, else <<[op, arg, outcome]>>
    dbResult,      \* <<>> before a call, else <<[raised, value]>>
    \* ---- SchemaAnalyzer
    schema_cache,  \* SchemaAnalyzer.schema_cache: None or <<schema>>
    scCall,        \* <<>> before a call, else <<[op, tables]>>
    scResult,      \* <<>> before a call, else <<value returned>>
    scDbCalls,     \* db_manager calls made by the last SchemaAnalyzer call, in order
    scAnalysed     \* number of analyze_schema runs started by get_schema_context

genVars == <<pc, mock_mode, description, schema_context, query, validation,
             aiPrompts, aiReturns, clientLog, validated, explainCalls, result, raised>>
scoreVars == <<issues, score>>
findVars == <<fiQuery, fiPlan, fiResult>>
rewriteVars == <<rwQuery, rwIssues, rwResult>>
indexVars == <<ixQuery, ixResult>>
callVars == <<opCall, opResult, setOrders>>
advVars == <<rewriteVars, indexVars, callVars>>
askVars == <<askCall, askResult>>
poolVars == <<checked_out, dbCall, dbResult>>
cacheVars == <<schema_cache, scCall, scResult, scDbCalls, scAnalysed>>
svcVars == <<askVars, poolVars, cacheVars>>
vars == <<genVars, scoreVars, findVars, advVars, svcVars>>

----------------------------------------------------------------------------
(* Text primitives (Python str methods on ASCII text)                      *)

None == <<>>
Some(v) == <<v>>

Ch(s, i) == SubSeq(s, i, i)

\* the ASCII white space of str.strip() and of \s
IsSpace(c) == c \in {" ", "\n", "\t", "\r", "\f"}

UpperCh(c) ==
    CASE c = "a" -> "A" [] c = "b" -> "B" [] c = "c" -> "C" [] c = "d" -> "D"
      [] c = "e" -> "E" [] c = "f" -> "F" [] c = "g" -> "G" [] c = "h" -> "H"
      [] c = "i" -> "I" [] c = "j" -> "J" [] c = "k" -> "K" [] c = "l" -> "L"
      [] c = "m" -> "M" [] c = "n" -> "N" [] c = "o" -> "O" [] c = "p" -> "P"
      [] c = "q" -> "Q" [] c = "r" -> "R" [] c = "s" -> "S" [] c = "t" -> "T"
      [] c = "u" -> "U" [] c = "v" -> "V" [] c = "w" -> "W" [] c = "x" -> "X"
      [] c = "y" -> "Y" [] c = "z" -> "Z" [] OTHER -> c

LowerCh(c) ==
    CASE c = "A" -> "a" [] c = "B" -> "b" [] c = "C" -> "c" [] c = "D" -> "d"
      [] c = "E" -> "e" [] c = "F" -> "f" [] c = "G" -> "g" [] c = "H" -> "h"
      [] c = "I" -> "i" [] c = "J" -> "j" [] c = "K" -> "k" [] c = "L" -> "l"
      [] c = "M" -> "m" [] c = "N" -> "n" [] c = "O" -> "o" [] c = "P" -> "p"
      [] c = "Q" -> "q" [] c = "R" -> "r" [] c = "S" -> "s" [] c = "T" -> "t"
      [] c = "U" -> "u" [] c = "V" -> "v" [] c = "W" -> "w" [] c = "X" -> "x"
      [] c = "Y" -> "y" [] c = "Z" -> "z" [] OTHER -> c

RECURSIVE Upper(_)
Upper(s) == IF Len(s) = 0 THEN "" ELSE UpperCh(Ch(s, 1)) \o Upper(SubSeq(s, 2, Len(s)))

RECURSIVE Lower(_)
Lower(s) == IF Len(s) = 0 THEN "" ELSE LowerCh(Ch(s, 1)) \o Lower(SubSeq(s, 2, Len(s)))

RECURSIVE LStrip(_)
LStrip(s) == IF Len(s) > 0 /\ IsSpace(Ch(s, 1)) THEN LStrip(SubSeq(s, 2, Len(s))) ELSE s

RECURSIVE RStrip(_)
RStrip(s) ==
    IF Len(s) > 0 /\ IsSpace(Ch(s, Len(s))) THEN RStrip(SubSeq(s, 1, Len(s) - 1)) ELSE s

Strip(s) == RStrip(LStrip(s))

StartsWith(s, p) == Len(s) >= Len(p) /\ SubSeq(s, 1, Len(p)) = p

\* p in s
Contains(s, p) == \E i \in 1..(Len(s) - Len(p) + 1) : SubSeq(s, i, i + Len(p) - 1) = p

\* s.replace(p, r): leftmost non-overlapping occurrences, p not empty
RECURSIVE Replace(_, _, _)
Replace(s, p, r) ==
    IF Len(s) < Len(p) THEN s
    ELSE IF SubSeq(s, 1, Len(p)) = p
         THEN r \o Replace(SubSeq(s, Len(p) + 1, Len(s)), p, r)
         ELSE Ch(s, 1) \o Replace(SubSeq(s, 2, Len(s)), p, r)

\* p in s.lower(), for a lower-case p: lower() maps character by character,
\* so the test is made on each window of s
InLower(p, s) ==
    \E i \in 1..(Len(s) - Len(p) + 1) : Lower(SubSeq(s, i, i + Len(p) - 1)) = p

\* sep.join(parts)
RECURSIVE Join(_, _)
Join(sep, parts) ==
    IF Len(parts) = 0 THEN ""
    ELSE IF Len(parts) = 1 THEN parts[1]
    ELSE parts[1] \o sep \o Join(sep, Tail(parts))

----------------------------------------------------------------------------
(* AIService.generate_sql                                                  *)

MockCustomerSql == "SELECT * FROM customers WHERE state = 'CA' LIMIT 10;"
MockOrderSql == "SELECT * FROM orders WHERE order_date > '2024-01-01' LIMIT 10;"
MockDefaultSql == "SELECT * FROM table LIMIT 10;"

_mock_sql_generation(prompt) ==
    IF InLower("customer", prompt) THEN MockCustomerSql
    ELSE IF InLower("order", prompt) THEN MockOrderSql
    ELSE MockDefaultSql

\* the clean-up of the remote answer: strip, drop the code fences, strip
Backtick == SubSeq("`'", 1, 1)
Fence == Backtick \o Backtick \o Backtick
CleanResponse(content) ==
    Strip(Replace(Replace(Strip(content), Fence \o "sql", ""), Fence, ""))

\* Variant: a failure of the remote client propagates to the caller.
generate_sql_propagates(prompt, mock, outcome, content) ==
    IF mock THEN [raised |-> FALSE, text |-> _mock_sql_generation(prompt)]
    ELSE IF outcome = "ok" THEN [raised |-> FALSE, text |-> CleanResponse(content)]
    ELSE [raised |-> TRUE, text |-> ""]

\* outcome: "ok" (the client answered with content) or "error" (the client raised)
generate_sql(prompt, mock, outcome, content) ==
    IF mock THEN [raised |-> FALSE, text |-> _mock_sql_generation(prompt)]
    ELSE IF outcome = "ok" THEN [raised |-> FALSE, text |-> CleanResponse(content)]
    ELSE [raised |-> FALSE, text |-> _mock_sql_generation(prompt)]

----------------------------------------------------------------------------
(* DatabaseManager.explain_query                                           *)

\* outcome: "plan" (EXPLAIN answered), "no_connection" (pool.get_connection
\* raised) or "explain_error" (cursor.execute raised): every exception is
\* caught and an empty plan returned.
explain_query(q, outcome, plan) ==
    IF outcome = "plan" THEN [raised |-> FALSE, error |-> "", plan |-> plan]
    ELSE [raised |-> FALSE, error |-> "", plan |-> <<>>]

ExplainOutcomes == {"plan", "no_connection", "explain_error"}

----------------------------------------------------------------------------
(* QueryGenerator                                                          *)

\* A schema context is the sequence of its tables (the dict 'tables' in
\* insertion order), each [name, columns], a column [name, type].
FormatColumn(col) == col.name \o " (" \o col.type \o ")"

FormatTable(t) ==
    "Table: " \o t.name \o "\nColumns: "
        \o Join(", ", [i \in 1..Len(t.columns) |-> FormatColumn(t.columns[i])]) \o "\n"

_format_schema(schema) == Join("\n", [i \in 1..Len(schema) |-> FormatTable(schema[i])])

_create_prompt(d, schema) ==
    "You are an expert MySQL query generator.\n\nDatabase Schema:\n"
        \o _format_schema(schema)
        \o "\n\nUser Request: " \o d
        \o "\n\nGenerate a MySQL query that:\n"
        \o "1. Answers the user's request accurately\n"
        \o "2. Uses proper MySQL syntax\n"
        \o "3. Follows best practices (proper joins, WHERE clauses, etc.)\n"
        \o "4. Includes appropriate LIMIT clauses if needed\n"
        \o "5. Returns only the SQL query, no explanations\n\nSQL Query:"

FixPrompt(q, error, schema) ==
    "The following MySQL query has an error:\n\nQuery: " \o q
        \o "\nError: " \o error
        \o "\n\nDatabase Schema:\n" \o _format_schema(schema)
        \o "\n\nPlease provide a corrected version of the query that fixes the error.\n"
        \o "Return only the corrected SQL query, no explanations.\n\nCorrected Query:"

MutatingWords == {"DROP", "DELETE", "TRUNCATE", "UPDATE", "INSERT"}
PolicyError == "Only SELECT queries are allowed"

\* Variant: the keyword test looks for DROP alone.
_validate_query_drop_only(q, outcome, plan) ==
    IF ~StartsWith(Upper(Strip(q)), "SELECT") /\ Contains(Upper(q), "DROP")
    THEN [is_valid |-> FALSE, error |-> Some(PolicyError), explained |-> FALSE]
    ELSE LET r == explain_query(q, outcome, plan) IN
         IF r.raised
         THEN [is_valid |-> FALSE, error |-> Some(r.error), explained |-> TRUE]
         ELSE [is_valid |-> TRUE, error |-> None, explained |-> TRUE]

\* (is_valid, error), and whether db_manager.explain_query was called
_validate_query(q, outcome, plan) ==
    IF ~StartsWith(Upper(Strip(q)), "SELECT")
       /\ \E word \in MutatingWords : Contains(Upper(q), word)
    THEN [is_valid |-> FALSE, error |-> Some(PolicyError), explained |-> FALSE]
    ELSE LET r == explain_query(q, outcome, plan) IN
         IF r.raised
         THEN [is_valid |-> FALSE, error |-> Some(r.error), explained |-> TRUE]
         ELSE [is_valid |-> TRUE, error |-> None, explained |-> TRUE]

\* str(error) as the f-string of _fix_query formats it
ErrorText(error) == IF error = None THEN "None" ELSE error[1]

_fix_query(q, error, schema, mock, outcome, content) ==
    generate_sql(FixPrompt(q, ErrorText(error), schema), mock, outcome, content)

\* Variant: a query is repaired whatever its validation said.
NeedsRepairAlways(v) == TRUE

\* Variant: a query rejected by the policy test is not repaired.
NeedsRepairUnlessPolicy(v) == ~v.is_valid /\ v.error # Some(PolicyError)

\* generate, line 47: if not is_valid
NeedsRepair(v) == ~v.is_valid

\* Variant: the repaired query goes back to validation, and to repair again.
AfterFixValidateAgain == "Validating"

\* generate, lines 50-52: the repaired query is returned as it is
AfterFix == "Done"

----------------------------------------------------------------------------
(* QueryOptimizer._calculate_query_score                                   *)

Max(a, b) == IF a >= b THEN a ELSE b

\* severity_penalties.get(issue.get('severity', 'low'), 5)
Penalty(issue) ==
    LET severity == IF "severity" \in DOMAIN issue THEN issue.severity ELSE "low" IN
    CASE severity = "low" -> 5
      [] severity = "medium" -> 15
      [] severity = "high" -> 30
      [] OTHER -> 5

\* the loop of lines 218-220 on the running score
RECURSIVE ScoreLoop(_, _)
ScoreLoop(running, list) ==
    IF Len(list) = 0 THEN running ELSE ScoreLoop(running - Penalty(Head(list)), Tail(list))

\* Variant: the result is not clamped at 0.
_calculate_query_score_unclamped(list) == ScoreLoop(100, list)

_calculate_query_score(list) == Max(0, ScoreLoop(100, list))

----------------------------------------------------------------------------
(* QueryOptimizer._find_issues                                             *)

IsWord(c) ==
    \/ UpperCh(c) \in {"A", "B", "C", "D", "E", "F", "G", "H", "I", "J", "K", "L", "M",
                       "N", "O", "P", "Q", "R", "S", "T", "U", "V", "W", "X", "Y", "Z"}
    \/ c \in {"0", "1", "2", "3", "4", "5", "6", "7", "8", "9", "_"}

\* the keyword kw (upper case) stands at position i of s, in any casing
KeywordAt(s, i, kw) ==
    /\ i + Len(kw) - 1 <= Len(s)
    /\ Upper(SubSeq(s, i, i + Len(kw) - 1)) = kw

\* the positions j > from such that s[from+1 .. j-1] is white space, one
\* character at least: where a \s+ that starts after `from' may end
AfterSpaces(s, from) ==
    {j \in (from + 2)..Len(s) : \A k \in (from + 1)..(j - 1) : IsSpace(Ch(s, k))}

\* re.search(r'SELECT\s+\*', s, re.IGNORECASE) matches at position i
SelectStarAt(s, i) ==
    /\ KeywordAt(s, i, "SELECT")
    /\ \E j \in AfterSpaces(s, i + 5) : Ch(s, j) = "*"

\* Variant: the pattern without re.IGNORECASE.
SearchSelectStarCaseSensitive(s) ==
    \E i \in 1..Len(s) :
        /\ i + 5 <= Len(s) /\ SubSeq(s, i, i + 5) = "SELECT"
        /\ \E j \in AfterSpaces(s, i + 5) : Ch(s, j) = "*"

SearchSelectStar(s) == \E i \in 1..Len(s) : SelectStarAt(s, i)

\* re.search(r'WHERE', s, re.IGNORECASE)
SearchWhere(s) == \E i \in 1..Len(s) : KeywordAt(s, i, "WHERE")

\* re.search(r'FROM\s+\w+', s, re.IGNORECASE)
SearchFromTable(s) ==
    \E i \in 1..Len(s) :
        /\ KeywordAt(s, i, "FROM")
        /\ \E j \in AfterSpaces(s, i + 3) : IsWord(Ch(s, j))

\* A plan step is a dict: a function from some of the keys type, table,
\* Extra to an optional text.  step.get(key)
Get(step, key) == IF key \in DOMAIN step THEN step[key] ELSE None

\* str(x) of an optional text inside an f-string
Str(x) == IF x = None THEN "None" ELSE x[1]

SelectAllIssue ==
    [type |-> "select_all", severity |-> "medium",
     message |-> "Using SELECT * can retrieve unnecessary columns",
     suggestion |-> "Specify only the columns you need"]

NoWhereIssue ==
    [type |-> "no_where", severity |-> "high",
     message |-> "Query has no WHERE clause, may scan entire table",
     suggestion |-> "Add WHERE clause to filter results"]

TableScanIssue(step) ==
    [type |-> "table_scan", severity |-> "high", table |-> Get(step, "table"),
     message |-> "Full table scan on " \o Str(Get(step, "table")),
     suggestion |-> "Consider adding an index"]

FilesortIssue ==
    [type |-> "filesort", severity |-> "medium",
     message |-> "Query requires filesort operation",
     suggestion |-> "Add index on ORDER BY columns"]

TemporaryIssue ==
    [type |-> "temporary_table", severity |-> "medium",
     message |-> "Query creates temporary table",
     suggestion |-> "Optimize joins or use covering index"]

\* step.get('Extra', ''): the default stands for an absent key only
ExtraOf(step) == IF "Extra" \in DOMAIN step THEN step.Extra ELSE Some("")

\* 'flag' in step.get('Extra', '') raises TypeError when the value is None
ExtraRaises(plan) == \E i \in 1..Len(plan) : ExtraOf(plan[i]) = None

RECURSIVE TableScans(_)
TableScans(plan) ==
    IF Len(plan) = 0 THEN <<>>
    ELSE (IF Get(Head(plan), "type") = Some("ALL") THEN <<TableScanIssue(Head(plan))>> ELSE <<>>)
            \o TableScans(Tail(plan))

\* one issue per step whose Extra text contains flag; no step's Extra is None
RECURSIVE ExtraIssues(_, _, _)
ExtraIssues(plan, flag, issue) ==
    IF Len(plan) = 0 THEN <<>>
    ELSE (IF Contains(ExtraOf(Head(plan))[1], flag) THEN <<issue>> ELSE <<>>)
            \o ExtraIssues(Tail(plan), flag, issue)

\* Variant: the plan rules are applied before the text rules.
_find_issues_plan_first(q, plan) ==
    IF ExtraRaises(plan) THEN [raised |-> TRUE, issues |-> <<>>]
    ELSE [raised |-> FALSE,
          issues |->
              TableScans(plan)
                  \o ExtraIssues(plan, "Using filesort", FilesortIssue)
                  \o ExtraIssues(plan, "Using temporary", TemporaryIssue)
                  \o (IF SearchSelectStar(q) THEN <<SelectAllIssue>> ELSE <<>>)
                  \o (IF ~SearchWhere(q) /\ SearchFromTable(q) THEN <<NoWhereIssue>> ELSE <<>>)]

\* [raised, issues]: the list returned, or raised = TRUE when the function
\* ends by an exception (the first Extra test on a None value)
_find_issues(q, plan) ==
    IF ExtraRaises(plan) THEN [raised |-> TRUE, issues |-> <<>>]
    ELSE [raised |-> FALSE,
          issues |->
              (IF SearchSelectStar(q) THEN <<SelectAllIssue>> ELSE <<>>)
                  \o (IF ~SearchWhere(q) /\ SearchFromTable(q) THEN <<NoWhereIssue>> ELSE <<>>)
                  \o TableScans(plan)
                  \o ExtraIssues(plan, "Using filesort", FilesortIssue)
                  \o ExtraIssues(plan, "Using temporary", TemporaryIssue)]

----------------------------------------------------------------------------
(* QueryOptimizer._generate_optimized_query                                *)

\* any(i['type'] == kind for i in issues)
AnyOfType(list, kind) == \E i \in 1..Len(list) : list[i].type = kind

\* where the match of SELECT\s+\* that starts at position i ends: the * after
\* the white space run
SelectStarEnd(s, i) == CHOOSE j \in AfterSpaces(s, i + 5) : Ch(s, j) = "*"

ColumnList == "SELECT id, name, created_at"

\* Variant: re.sub with count=1, only the first match is replaced.
RECURSIVE SubSelectStarFirst(_)
SubSelectStarFirst(s) ==
    IF Len(s) = 0 THEN ""
    ELSE IF SelectStarAt(s, 1)
         THEN ColumnList \o SubSeq(s, SelectStarEnd(s, 1) + 1, Len(s))
         ELSE Ch(s, 1) \o SubSelectStarFirst(SubSeq(s, 2, Len(s)))

\* re.sub(r'SELECT\s+\*', 'SELECT id, name, created_at', s, flags=re.IGNORECASE):
\* every match, left to right, without overlap
RECURSIVE SubSelectStar(_)
SubSelectStar(s) ==
    IF Len(s) = 0 THEN ""
    ELSE IF SelectStarAt(s, 1)
         THEN ColumnList \o SubSelectStar(SubSeq(s, SelectStarEnd(s, 1) + 1, Len(s)))
         ELSE Ch(s, 1) \o SubSelectStar(SubSeq(s, 2, Len(s)))

\* re.search(r'LIMIT', s, re.IGNORECASE)
SearchLimit(s) == \E i \in 1..Len(s) : KeywordAt(s, i, "LIMIT")

LimitClause == " LIMIT 1000"

\* Variant: the LIMIT is appended whatever the issues are.
_generate_optimized_query_always_limits(q, list) ==
    LET replaced == IF AnyOfType(list, "select_all") THEN SubSelectStar(q) ELSE q IN
    IF ~SearchLimit(replaced) THEN replaced \o LimitClause ELSE replaced

_generate_optimized_query(q, list) ==
    LET replaced == IF AnyOfType(list, "select_all") THEN SubSelectStar(q) ELSE q IN
    IF AnyOfType(list, "no_where") /\ ~SearchLimit(replaced)
    THEN replaced \o LimitClause
    ELSE replaced

----------------------------------------------------------------------------
(* QueryOptimizer.suggest_indexes                                          *)

\* the first position from `from' on that holds no white space, Len(s) + 1
\* when there is none: where a greedy \s* that starts at `from' ends
SkipSpaces(s, from) ==
    CHOOSE j \in from..(Len(s) + 1) :
        /\ \A k \in from..(j - 1) : IsSpace(Ch(s, k))
        /\ (j = Len(s) + 1 \/ ~IsSpace(Ch(s, j)))

HasWordAt(s, j) == j <= Len(s) /\ IsWord(Ch(s, j))

\* the last position of the greedy \w+ that starts at j
WordEnd(s, j) ==
    CHOOSE e \in j..Len(s) :
        /\ \A k \in j..e : IsWord(Ch(s, k))
        /\ (e = Len(s) \/ ~IsWord(Ch(s, e + 1)))

NoMatch == [ok |-> FALSE, group |-> "", end |-> 0]

Matched(s, a, b, e) == [ok |-> TRUE, group |-> SubSeq(s, a, b), end |-> e]

\* r'FROM\s+(\w+)' matched at position i
FromTableAt(s, i) ==
    IF ~KeywordAt(s, i, "FROM") THEN NoMatch
    ELSE LET j == SkipSpaces(s, i + 4) IN
         IF j = i + 4 \/ ~HasWordAt(s, j) THEN NoMatch
         ELSE Matched(s, j, WordEnd(s, j), WordEnd(s, j))

\* r'WHERE\s+(\w+)\s*[=<>]' matched at position i
WhereColumnAt(s, i) ==
    IF ~KeywordAt(s, i, "WHERE") THEN NoMatch
    ELSE LET j == SkipSpaces(s, i + 5) IN
         IF j = i + 5 \/ ~HasWordAt(s, j) THEN NoMatch
         ELSE LET e == WordEnd(s, j)
                  k == SkipSpaces(s, e + 1)
              IN IF k <= Len(s) /\ Ch(s, k) \in {"=", "<", ">"}
                 THEN Matched(s, j, e, k) ELSE NoMatch

\* r'ON\s+\w+\.(\w+)\s*=' matched at position i
JoinColumnAt(s, i) ==
    IF ~KeywordAt(s, i, "ON") THEN NoMatch
    ELSE LET j == SkipSpaces(s, i + 2) IN
         IF j = i + 2 \/ ~HasWordAt(s, j) THEN NoMatch
         ELSE LET d == WordEnd(s, j) + 1 IN
              IF d > Len(s) \/ Ch(s, d) # "." \/ ~HasWordAt(s, d + 1) THEN NoMatch
              ELSE LET e == WordEnd(s, d + 1)
                       k == SkipSpaces(s, e + 1)
                   IN IF k <= Len(s) /\ Ch(s, k) = "="
                      THEN Matched(s, d + 1, e, k) ELSE NoMatch

\* r'ORDER\s+BY\s+(\w+)' matched at position i
OrderColumnAt(s, i) ==
    IF ~KeywordAt(s, i, "ORDER") THEN NoMatch
    ELSE LET j == SkipSpaces(s, i + 5) IN
         IF j = i + 5 \/ ~KeywordAt(s, j, "BY") THEN NoMatch
         ELSE LET m == SkipSpaces(s, j + 2) IN
              IF m = j + 2 \/ ~HasWordAt(s, m) THEN NoMatch
              ELSE Matched(s, m, WordEnd(s, m), WordEnd(s, m))

MatchAt(kind, s, i) ==
    CASE kind = "tables" -> FromTableAt(s, i)
      [] kind = "where_columns" -> WhereColumnAt(s, i)
      [] kind = "join_columns" -> JoinColumnAt(s, i)
      [] kind = "order_columns" -> OrderColumnAt(s, i)

\* re.findall(pattern, s, re.IGNORECASE): the groups of the matches met
\* from position `from' on, left to right, without overlap
RECURSIVE FindAll(_, _, _)
FindAll(kind, s, from) ==
    LET starts == {i \in from..Len(s) : MatchAt(kind, s, i).ok} IN
    IF starts = {} THEN <<>>
    ELSE LET first == CHOOSE i \in starts : \A k \in starts : i <= k
             m == MatchAt(kind, s, first)
         IN <<m.group>> \o FindAll(kind, s, m.end + 1)

Range(seq) == {seq[i] : i \in 1..Len(seq)}

\* set(where_columns + join_columns)
ColumnSet(q) == Range(FindAll("where_columns", q, 1) \o FindAll("join_columns", q, 1))

\* set(order_columns)
OrderSet(q) == Range(FindAll("order_columns", q, 1))

\* the orders in which iterating over the set S may give its members: the
\* order of a set of str depends on the hash seed of the process
IterationOrders(S) ==
    {p \in [1..Cardinality(S) -> S] : \A i, j \in 1..Cardinality(S) : i # j => p[i] # p[j]}

\* Variant: the index of the order columns is named after its columns.
OrderSuggestionByColumns(table, cols) ==
    "CREATE INDEX idx_" \o table \o "_" \o Join("_", cols) \o " ON " \o table
        \o "(" \o Join(", ", cols) \o ");"

ColumnSuggestion(table, column) ==
    "CREATE INDEX idx_" \o table \o "_" \o column \o " ON " \o table \o "(" \o column \o ");"

OrderSuggestion(table, cols) ==
    "CREATE INDEX idx_" \o table \o "_order ON " \o table \o "(" \o Join(", ", cols) \o ");"

RECURSIVE ColumnSuggestions(_, _)
ColumnSuggestions(table, cols) ==
    IF Len(cols) = 0 THEN <<>>
    ELSE <<ColumnSuggestion(table, Head(cols))>> \o ColumnSuggestions(table, Tail(cols))

\* Variant: one index over all the filter and join columns of a table.
TableSuggestionsComposite(table, cols, orderCols) ==
    (IF Len(cols) > 0 THEN <<OrderSuggestionByColumns(table, cols)>> ELSE <<>>)
        \o (IF Len(orderCols) > 0 THEN <<OrderSuggestion(table, orderCols)>> ELSE <<>>)

\* the body of `for table in tables'
TableSuggestions(table, cols, orderCols) ==
    ColumnSuggestions(table, cols)
        \o (IF Len(orderCols) > 0 THEN <<OrderSuggestion(table, orderCols)>> ELSE <<>>)

RECURSIVE AllSuggestions(_, _, _)
AllSuggestions(tables, cols, orderCols) ==
    IF Len(tables) = 0 THEN <<>>
    ELSE TableSuggestions(Head(tables), cols, orderCols)
            \o AllSuggestions(Tail(tables), cols, orderCols)

\* suggest_indexes(q), the two sets being iterated in the orders cols and
\* orderCols
suggest_indexes(q, cols, orderCols) == AllSuggestions(FindAll("tables", q, 1), cols, orderCols)

----------------------------------------------------------------------------
(* AIService.get_optimization_advice, QueryOptimizer.analyze and optimize  *)

MockAdvice == "Consider adding indexes and avoiding table scans."

AdviceUnavailable == "Optimization advice unavailable."

\* outcome: "ok" (the client answered with content) or "error" (the client
\* raised); the prompt built from q and list goes to the client only
get_optimization_advice(q, plan, list, mock, outcome, content) ==
    IF mock THEN MockAdvice
    ELSE IF outcome = "ok" THEN Strip(content)
    ELSE AdviceUnavailable

\* a call of a collaborator, as the caller makes it
ExplainCall(q) == [fn |-> "db_manager.explain_query", query |-> q]

AdviceCall(q) == [fn |-> "ai_service.get_optimization_advice", query |-> q]

\* Variant: analyze asks for optimization advice as optimize does.
analyze_with_advice(q, explainOutcome, rows) ==
    LET execution_plan == explain_query(q, explainOutcome, rows).plan
        found == _find_issues(q, execution_plan)
    IN IF found.raised
       THEN [raised |-> TRUE, report |-> None, calls |-> <<ExplainCall(q)>>]
       ELSE [raised |-> FALSE,
             report |-> Some([query |-> q,
                              issues |-> found.issues,
                              execution_plan |-> execution_plan,
                              score |-> _calculate_query_score(found.issues)]),
             calls |-> <<ExplainCall(q), AdviceCall(q)>>]

\* [raised, report, calls]: the dict returned, or raised = TRUE when
\* _find_issues ended by an exception, which analyze does not catch; calls
\* lists the collaborator calls made, in order
analyze(q, explainOutcome, rows) ==
    LET execution_plan == explain_query(q, explainOutcome, rows).plan
        found == _find_issues(q, execution_plan)
    IN IF found.raised
       THEN [raised |-> TRUE, report |-> None, calls |-> <<ExplainCall(q)>>]
       ELSE [raised |-> FALSE,
             report |-> Some([query |-> q,
                              issues |-> found.issues,
                              execution_plan |-> execution_plan,
                              score |-> _calculate_query_score(found.issues)]),
             calls |-> <<ExplainCall(q)>>]

\* cols, orderCols: the iteration orders of the two sets of suggest_indexes
optimize(q, explainOutcome, rows, cols, orderCols, mock, aiOutcome, content) ==
    LET execution_plan == explain_query(q, explainOutcome, rows).plan
        found == _find_issues(q, execution_plan)
    IN IF found.raised
       THEN [raised |-> TRUE, report |-> None, calls |-> <<ExplainCall(q)>>]
       ELSE [raised |-> FALSE,
             report |-> Some([original_query |-> q,
                              optimized_query |-> _generate_optimized_query(q, found.issues),
                              issues_found |-> found.issues,
                              index_suggestions |-> suggest_indexes(q, cols, orderCols),
                              ai_recommendations |->
                                  get_optimization_advice(q, execution_plan, found.issues,
                                                          mock, aiOutcome, content),
                              execution_plan |-> execution_plan]),
             calls |-> <<ExplainCall(q), AdviceCall(q)>>]

----------------------------------------------------------------------------
(* QueryAssistant.ask with AIService.explain_results                       *)

\* str(n) of a row count below ten
Digits == <<"1", "2", "3", "4", "5", "6", "7", "8", "9">>

ToStr(n) == IF n = 0 THEN "0" ELSE Digits[n]

\* the pandas.DataFrame that execute_query returns: its number of rows
DataFrame(n) == [kind |-> "DataFrame", len |-> n]

\* bool(results), the test of `if results': pandas refuses the truth value
\* of a DataFrame, empty or not, by a ValueError
TruthValueError ==
    "The truth value of a DataFrame is ambiguous. Use a.empty, a.bool(), a.item(), a.any() or a.all()."

Truth(results) ==
    IF results.kind = "DataFrame" THEN [raised |-> TRUE, error |-> TruthValueError, value |-> FALSE]
    ELSE [raised |-> FALSE, error |-> "", value |-> results.len > 0]

\* str(e) of the TypeError of `'Using filesort' in None'
NoneNotIterable == "argument of type 'NoneType' is not iterable"

\* outcome: "ok" (the client answered with content) or "error" (the client
\* raised)
explain_results(question, q, results, mock, outcome, content) ==
    IF mock THEN "Found " \o ToStr(results.len) \o " results matching your criteria."
    ELSE IF outcome = "ok" THEN Strip(content)
    ELSE "Query returned " \o ToStr(results.len) \o " rows."

Failure(question, error) == [success |-> FALSE, error |-> error, question |-> question]

\* ask(question): q is the text query_generator.generate returns, exec the
\* outcome of db_manager.execute_query ([raised, error, rows]), the other
\* arguments the answers of the client and of EXPLAIN
ask(question, q, exec, mock, aiOutcome, content, explainOutcome, planRows) ==
    IF exec.raised THEN Failure(question, exec.error)
    ELSE LET results == DataFrame(exec.rows)
             explanation == explain_results(question, q, results, mock, aiOutcome, content)
             optimization == analyze(q, explainOutcome, planRows)
         IN IF optimization.raised THEN Failure(question, NoneNotIterable)
            ELSE IF Truth(results).raised THEN Failure(question, Truth(results).error)
            ELSE [success |-> TRUE,
                  question |-> question,
                  query |-> q,
                  results |-> results,
                  explanation |-> explanation,
                  optimization |-> optimization.report[1],
                  row_count |-> IF Truth(results).value THEN results.len ELSE 0]

----------------------------------------------------------------------------
(* DatabaseManager: the operations and the connection pool                 *)

\* pool_size of _initialize_pool
PoolSize == 5

DbOps ==
    {"execute_query", "explain_query", "get_tables", "get_table_schema",
     "get_table_statistics", "health_check"}

\* what the database does to an operation: "ok", "no_connection"
\* (pool.get_connection raises, as it does on an exhausted pool) or
\* "statement_error" (a cursor call raises after the connection was obtained)
DbOutcomes == {"ok", "no_connection", "statement_error"}

\* the operation closes its connection in a finally clause
ClosesInFinally(op) == op # "health_check"

\* the connection is obtained and still open when the operation ends
LeftOpen(op, outcome) ==
    IF outcome = "no_connection" THEN FALSE
    ELSE IF ClosesInFinally(op) THEN FALSE
    ELSE outcome = "statement_error"

\* [raised, value]: what the operation gives its caller
ReturnOf(op, outcome) ==
    IF outcome = "ok" THEN [raised |-> FALSE, value |-> IF op = "health_check" THEN "healthy" ELSE "answer"]
    ELSE CASE op = "execute_query" -> [raised |-> TRUE, value |-> ""]
           [] op \in {"explain_query", "get_tables", "get_table_schema"} ->
                  [raised |-> FALSE, value |-> "[]"]
           [] op = "get_table_statistics" -> [raised |-> FALSE, value |-> "{}"]
           [] op = "health_check" -> [raised |-> FALSE, value |-> "unhealthy"]

----------------------------------------------------------------------------
(* SchemaAnalyzer                                                          *)

\* Variant: the cache counts as filled only when it holds a table.
CacheHitWithTables(cache) == cache # None /\ Len(cache[1].tables) > 0

\* `if self.schema_cache': the cache is neither None nor a dict without keys
CacheHit(cache) == cache # None /\ DOMAIN cache[1] # {}

\* analyze_schema(): tables is the answer of db_manager.get_tables(), cols
\* the answer of db_manager.get_table_schema per table; the dict 'tables'
\* is the sequence of its entries in insertion order
analyze_schema(tables, cols) ==
    [schema |-> [tables |-> [i \in 1..Len(tables) |->
                                [name |-> tables[i], columns |-> cols[tables[i]]]]],
     calls |-> <<[fn |-> "get_tables", arg |-> ""]>>
                  \o [i \in 1..Len(tables) |-> [fn |-> "get_table_schema", arg |-> tables[i]]]]

\* get_schema_context(): [cache, value, calls, analysed], the cache after
\* the call, the value returned, the db_manager calls made and whether
\* analyze_schema ran
get_schema_context(cache, tables, cols) ==
    IF CacheHit(cache)
    THEN [cache |-> cache, value |-> cache[1], calls |-> <<>>, analysed |-> FALSE]
    ELSE LET a == analyze_schema(tables, cols) IN
         [cache |-> Some(a.schema), value |-> a.schema, calls |-> a.calls, analysed |-> TRUE]

is_loaded(cache) == cache # None

----------------------------------------------------------------------------
(* Inputs of the generation loop                                           *)

Descriptions == {"Show me customers", "List recent orders", "Count the rows"}

OrdersTable ==
    [name |-> "orders",
     columns |-> <<[name |-> "id", type |-> "int"], [name |-> "order_date", type |-> "date"]>>]

Schemas == {<<>>, <<OrdersTable>>}

\* message contents the remote model may answer with
ClientContents ==
    {"SELECT * FROM customers LIMIT 10",
     "  select name from customers\n",
     Fence \o "sql\nSELECT id FROM orders\n" \o Fence,
     "DROP TABLE customers",
     Fence \o "sql\nDELETE FROM orders\n" \o Fence,
     "SHOW COLUMNS FROM updates",
     "SHOW TABLES",
     "SELEC * FROM customers"}

ClientOutcomes == {"ok", "error"}

FullScanStep == [type |-> Some("ALL"), table |-> Some("customers"), Extra |-> None]

GenPlans == {<<>>, <<FullScanStep>>}

----------------------------------------------------------------------------
(* QueryGenerator.generate, step by step                                   *)

ClientMark(outcome) == IF mock_mode THEN "mock" ELSE outcome

\* generate is called: lines 36-39
Generate(d, s) ==
    /\ pc \in {"Idle", "Done"}
    /\ pc' = "Requested"
    /\ description' = d
    /\ schema_context' = s
    /\ query' = ""
    /\ validation' = None
    /\ aiPrompts' = <<>>
    /\ aiReturns' = <<>>
    /\ clientLog' = <<>>
    /\ validated' = <<>>
    /\ explainCalls' = <<>>
    /\ result' = None
    /\ raised' = FALSE
    /\ UNCHANGED <<mock_mode, scoreVars, findVars, advVars, svcVars>>

\* line 42: query = self.ai_service.generate_sql(prompt)
RequestSql(outcome, content) ==
    /\ pc = "Requested"
    /\ LET prompt == _create_prompt(description, schema_context)
           r == generate_sql(prompt, mock_mode, outcome, content)
       IN /\ aiPrompts' = Append(aiPrompts, prompt)
          /\ clientLog' = Append(clientLog, ClientMark(outcome))
          /\ IF r.raised
             THEN /\ raised' = TRUE
                  /\ pc' = "Done"
                  /\ UNCHANGED <<query, aiReturns>>
             ELSE /\ query' = r.text
                  /\ aiReturns' = Append(aiReturns, r.text)
                  /\ pc' = "Validating"
                  /\ UNCHANGED raised
    /\ UNCHANGED <<mock_mode, description, schema_context, validation, validated,
                   explainCalls, result, scoreVars, findVars, advVars, svcVars>>

\* lines 45-47 and 52: is_valid, error = self._validate_query(query); a valid
\* query is returned
ValidateQuery(outcome, plan) ==
    /\ pc = "Validating"
    /\ LET v == _validate_query(query, outcome, plan)
       IN /\ validation' = Some([is_valid |-> v.is_valid, error |-> v.error])
          /\ validated' = Append(validated, query)
          /\ explainCalls' =
                IF v.explained
                THEN Append(explainCalls, [query |-> query, failed |-> outcome # "plan"])
                ELSE explainCalls
          /\ IF NeedsRepair(v)
             THEN pc' = "Repairing" /\ UNCHANGED result
             ELSE pc' = "Done" /\ result' = Some(query)
    /\ UNCHANGED <<mock_mode, description, schema_context, query, aiPrompts, aiReturns,
                   clientLog, raised, scoreVars, findVars, advVars, svcVars>>

\* lines 50-52: query = self._fix_query(query, error, schema_context); return query
FixQuery(outcome, content) ==
    /\ pc = "Repairing"
    /\ LET error == validation[1].error
           r == _fix_query(query, error, schema_context, mock_mode, outcome, content)
       IN /\ aiPrompts' = Append(aiPrompts, FixPrompt(query, ErrorText(error), schema_context))
          /\ clientLog' = Append(clientLog, ClientMark(outcome))
          /\ IF r.raised
             THEN /\ raised' = TRUE
                  /\ pc' = "Done"
                  /\ UNCHANGED <<query, aiReturns, result>>
             ELSE /\ query' = r.text
                  /\ aiReturns' = Append(aiReturns, r.text)
                  /\ result' = Some(r.text)
                  /\ pc' = AfterFix
                  /\ UNCHANGED raised
    /\ UNCHANGED <<mock_mode, description, schema_context, validation, validated,
                   explainCalls, scoreVars, findVars, advVars, svcVars>>

\* no call of generate is under way
InitGen ==
    /\ pc = "Idle"
    /\ description = ""
    /\ schema_context = <<>>
    /\ query = ""
    /\ validation = None
    /\ aiPrompts = <<>>
    /\ aiReturns = <<>>
    /\ clientLog = <<>>
    /\ validated = <<>>
    /\ explainCalls = <<>>
    /\ result = None
    /\ raised = FALSE

InitScore == issues = <<>> /\ score = None

InitFind == fiQuery = "" /\ fiPlan = <<>> /\ fiResult = None

\* AIService.__init__ sets mock_mode: TRUE without an API key or a client
InitAdvisor ==
    /\ rwQuery = "" /\ rwIssues = <<>> /\ rwResult = None
    /\ ixQuery = "" /\ ixResult = None
    /\ opCall = None /\ opResult = None /\ setOrders = {}

\* DatabaseManager.__init__ leaves a full pool, SchemaAnalyzer.__init__ an
\* empty cache
InitServices ==
    /\ askCall = None /\ askResult = None
    /\ checked_out = 0 /\ dbCall = None /\ dbResult = None
    /\ schema_cache = None /\ scCall = None /\ scResult = None
    /\ scDbCalls = <<>> /\ scAnalysed = 0

Init == mock_mode \in BOOLEAN /\ InitGen /\ InitScore /\ InitFind /\ InitAdvisor /\ InitServices

\* the optimizer alone, the assistant being in mock mode
InitOptimizer ==
    mock_mode = TRUE /\ InitGen /\ InitScore /\ InitFind /\ InitAdvisor /\ InitServices

NextGen ==
    \/ \E d \in Descriptions, s \in Schemas : Generate(d, s)
    \/ \E o \in ClientOutcomes, c \in ClientContents : RequestSql(o, c)
    \/ \E o \in ExplainOutcomes, p \in GenPlans : ValidateQuery(o, p)
    \/ \E o \in ClientOutcomes, c \in ClientContents : FixQuery(o, c)

SpecGen == Init /\ [][NextGen]_vars

----------------------------------------------------------------------------
(* The scorer and the detector, called on enumerated inputs                *)

MaxIssues == 10
MaxPlanLen == 2

SeqsUpTo(S, n) == UNION {[1..k -> S] : k \in 0..n}

Severities == {"low", "medium", "high"}

ScoreIssues == {[severity |-> sev, message |-> "Issue"] : sev \in Severities}

\* the caller's list grows by one issue
AddIssue(issue) ==
    /\ Len(issues) < MaxIssues
    /\ issues' = Append(issues, issue)
    /\ score' = None
    /\ UNCHANGED <<genVars, findVars, advVars, svcVars>>

\* _calculate_query_score(issues) is called
CalculateQueryScore ==
    /\ score = None
    /\ score' = Some(_calculate_query_score(issues))
    /\ UNCHANGED <<issues, genVars, findVars, advVars, svcVars>>

NextScore ==
    \/ \E issue \in ScoreIssues : AddIssue(issue)
    \/ CalculateQueryScore

SpecScore == InitOptimizer /\ [][NextScore]_vars

FindQueries ==
    {"SELECT * FROM customers",
     "select  *\nfrom t",
     "SELECT name FROM customers",
     "SELECT name FROM customers WHERE id = 1",
     "SELECT 1",
     "SELECT * FROM a WHERE x IN (SELECT * FROM b)",
     "SELECT * FROM a UNION SELECT * FROM b",
     "SELECT*FROM t",
     "SELECT elsewhere FROM places",
     "SELECT name\tFROM\n customers where id > 1",
     "SELECT * FROM t LIMIT 5"}

PlanSteps ==
    {FullScanStep,
     [type |-> Some("ALL"), table |-> None],
     [type |-> Some("ref"), table |-> Some("orders"),
      Extra |-> Some("Using where; Using filesort")],
     [type |-> Some("ALL"), table |-> Some("items"),
      Extra |-> Some("Using temporary; Using filesort")],
     [type |-> Some("index"), table |-> Some("t"), Extra |-> Some("Using index")]}

\* _find_issues(q, plan) is called.  The function keeps nothing between
\* calls, so every call is explored from the initial state; a later call
\* repeats the arguments of the one before it.
FindIssues(q, plan) ==
    /\ fiResult = None \/ (q = fiQuery /\ plan = fiPlan)
    /\ fiQuery' = q
    /\ fiPlan' = plan
    /\ fiResult' = Some(_find_issues(q, plan))
    /\ UNCHANGED <<genVars, scoreVars, advVars, svcVars>>

NextFind == \E q \in FindQueries, plan \in SeqsUpTo(PlanSteps, MaxPlanLen) : FindIssues(q, plan)

SpecFind == InitOptimizer /\ [][NextFind]_vars

----------------------------------------------------------------------------
(* The rewriter, called on enumerated inputs                               *)

MaxRewriteIssues == 2

RewriteQueries ==
    {"SELECT * FROM customers",
     "select  *\nfrom t",
     "SELECT name FROM customers",
     "SELECT * FROM a WHERE x IN (SELECT * FROM b)",
     "SELECT * FROM t LIMIT 5",
     "SELECT name FROM t limit 5",
     "SELECT credit_limit FROM accounts"}

RewriteIssues ==
    {SelectAllIssue, NoWhereIssue, TableScanIssue(FullScanStep), FilesortIssue, TemporaryIssue}

\* _generate_optimized_query(q, list) is called
Rewrite(q, list) ==
    /\ rwResult = None \/ (q = rwQuery /\ list = rwIssues)
    /\ rwQuery' = q
    /\ rwIssues' = list
    /\ rwResult' = Some(_generate_optimized_query(q, list))
    /\ UNCHANGED <<genVars, scoreVars, findVars, indexVars, callVars, svcVars>>

NextRewrite ==
    \E q \in RewriteQueries, list \in SeqsUpTo(RewriteIssues, MaxRewriteIssues) : Rewrite(q, list)

SpecRewrite == InitOptimizer /\ [][NextRewrite]_vars

----------------------------------------------------------------------------
(* The index advisor, called on enumerated inputs                          *)

FromParts ==
    {"SELECT * FROM orders o", "select  id from\tcustomers", "SELECT o.id FROM orders o, stores s"}

JoinParts ==
    {"",
     " JOIN customers c ON o.customer_id = c.id",
     " JOIN items i ON i.order_id=o.id JOIN customers c on c.id = o.customer_id"}

WhereParts ==
    {"",
     " WHERE status = 'open'",
     " WHERE customer_id > 5",
     " where total<10 AND status = 'open'",
     " WHERE id IN (SELECT order_id FROM items WHERE qty >= 2)"}

OrderParts ==
    {"", " ORDER BY order_date", " ORDER BY order_date DESC, total", " order  by customer_id"}

IndexQueries ==
    {f \o j \o w \o o : f \in FromParts, j \in JoinParts, w \in WhereParts, o \in OrderParts}
        \cup {"SELECT * FROM orders WHERE customer_id = 5 ORDER BY order_date",
              "SELECT 1",
              "SELECT a FROM t ORDER BY a UNION SELECT a FROM u ORDER BY b"}

\* suggest_indexes(q) is called; as the detector, it keeps nothing between
\* calls
SuggestIndexes(q) ==
    /\ ixResult = None
    /\ \E cols \in IterationOrders(ColumnSet(q)), orderCols \in IterationOrders(OrderSet(q)) :
          ixResult' = Some(suggest_indexes(q, cols, orderCols))
    /\ ixQuery' = q
    /\ UNCHANGED <<genVars, scoreVars, findVars, rewriteVars, callVars, svcVars>>

NextIndex == \E q \in IndexQueries : SuggestIndexes(q)

SpecIndex == InitOptimizer /\ [][NextIndex]_vars

----------------------------------------------------------------------------
(* analyze and optimize, called on enumerated inputs                       *)

OptQueries ==
    {"SELECT * FROM customers",
     "SELECT name FROM customers WHERE id = 1 ORDER BY name",
     "SELECT * FROM orders o JOIN customers c ON o.customer_id = c.id WHERE status = 'open'",
     "SELEC * FROM customers"}

\* the rows EXPLAIN answers with when it answers
OptPlans ==
    {<<>>,
     <<FullScanStep>>,
     <<[type |-> Some("ALL"), table |-> Some("customers")]>>,
     <<[type |-> Some("ALL"), table |-> Some("customers"), Extra |-> Some("Using filesort")]>>,
     <<[type |-> Some("ref"), table |-> Some("orders"), Extra |-> Some("Using temporary")],
       [type |-> Some("ALL"), table |-> None]>>}

AdviceContents == {"  1. Add an index on customers(id).\n", "Use a covering index."}

\* the orders in which this process may iterate over the set S: the order
\* of a set of str is fixed by the hash seed of the process, so a set met
\* before is iterated as it was
OrdersInProcess(S) ==
    IF \E p \in setOrders : Range(p) = S THEN {p \in setOrders : Range(p) = S}
    ELSE IterationOrders(S)

\* the content of the client's answer, where the call reads it
ContentRead(aiOutcome, content) == IF ~mock_mode /\ aiOutcome = "ok" THEN content ELSE ""

\* The calls explored: a first call on any text with any answer of EXPLAIN,
\* then calls of either entry point on that text with that answer, the
\* client answering as it likes.
Explored(q, explainOutcome, rows) ==
    opCall # None =>
        /\ q = opCall[1].query
        /\ explainOutcome = opCall[1].explain
        /\ rows = opCall[1].rows

\* analyze(q) is called and ends
Analyze(q, explainOutcome, rows) ==
    /\ Explored(q, explainOutcome, rows)
    /\ opCall' = Some([op |-> "analyze", query |-> q, explain |-> explainOutcome,
                       rows |-> rows, advice |-> "none", content |-> ""])
    /\ opResult' = Some(analyze(q, explainOutcome, rows))
    /\ UNCHANGED <<genVars, scoreVars, findVars, rewriteVars, indexVars, setOrders, svcVars>>

\* optimize(q) is called and ends
Optimize(q, explainOutcome, rows, aiOutcome, content) ==
    /\ Explored(q, explainOutcome, rows)
    /\ opCall' = Some([op |-> "optimize", query |-> q, explain |-> explainOutcome,
                       rows |-> rows, advice |-> ClientMark(aiOutcome),
                       content |-> ContentRead(aiOutcome, content)])
    /\ \E cols \in OrdersInProcess(ColumnSet(q)), orderCols \in OrdersInProcess(OrderSet(q)) :
          /\ opResult' = Some(optimize(q, explainOutcome, rows, cols, orderCols,
                                       mock_mode, aiOutcome, content))
          /\ setOrders' = setOrders \cup {p \in {cols, orderCols} : Len(p) > 1}
    /\ UNCHANGED <<genVars, scoreVars, findVars, rewriteVars, indexVars, svcVars>>

NextOpt ==
    \/ \E q \in OptQueries, o \in ExplainOutcomes, rows \in OptPlans : Analyze(q, o, rows)
    \/ \E q \in OptQueries, o \in ExplainOutcomes, rows \in OptPlans,
          a \in ClientOutcomes, c \in AdviceContents : Optimize(q, o, rows, a, c)

SpecOpt == Init /\ [][NextOpt]_vars

----------------------------------------------------------------------------
(* ask, called on enumerated inputs                                        *)

Questions == {"Show me customers", "How many orders are open?"}

\* texts query_generator.generate may return
AskQueries == {"SELECT * FROM customers LIMIT 10", "SELECT COUNT(*) FROM orders WHERE status = 'open'"}

MaxRows == 2

\* execute_query returns a DataFrame or re-raises the error of the database
ExecOutcomes ==
    {[raised |-> FALSE, error |-> "", rows |-> n] : n \in 0..MaxRows}
        \cup {[raised |-> TRUE, error |-> "1146 (42S02): Table 'test.orders' doesn't exist",
               rows |-> 0]}

ExplanationContents == {" Ten customers were found.\n"}

AskPlans == {<<>>, <<FullScanStep>>, <<[type |-> Some("ALL"), table |-> Some("customers")]>>}

\* ask(question) is called and ends
Ask(question, q, exec, aiOutcome, content, explainOutcome, planRows) ==
    /\ askResult = None
    /\ askCall' = Some([question |-> question, query |-> q, exec |-> exec,
                        client |-> ClientMark(aiOutcome),
                        explain |-> explainOutcome, rows |-> planRows])
    /\ askResult' = Some(ask(question, q, exec, mock_mode, aiOutcome, content,
                             explainOutcome, planRows))
    /\ UNCHANGED <<genVars, scoreVars, findVars, advVars, poolVars, cacheVars>>

NextAsk ==
    \E question \in Questions, q \in AskQueries, exec \in ExecOutcomes,
       a \in ClientOutcomes, c \in ExplanationContents,
       o \in ExplainOutcomes, rows \in AskPlans :
        Ask(question, q, exec, a, c, o, rows)

SpecAsk == Init /\ [][NextAsk]_vars

----------------------------------------------------------------------------
(* DatabaseManager, called on enumerated inputs                            *)

DbArgs(op) ==
    IF op \in {"execute_query", "explain_query"} THEN {"SELECT 1", "SELECT * FROM customers"}
    ELSE IF op \in {"get_table_schema", "get_table_statistics"} THEN {"customers", "orders"}
    ELSE {""}

\* one operation of DatabaseManager is called and ends; an exhausted pool
\* gives no connection
DbOperation(op, arg, outcome) ==
    /\ checked_out = PoolSize => outcome = "no_connection"
    /\ dbCall' = Some([op |-> op, arg |-> arg, outcome |-> outcome])
    /\ dbResult' = Some(ReturnOf(op, outcome))
    /\ checked_out' = checked_out + (IF LeftOpen(op, outcome) THEN 1 ELSE 0)
    /\ UNCHANGED <<genVars, scoreVars, findVars, advVars, askVars, cacheVars>>

NextPool == \E op \in DbOps, outcome \in DbOutcomes : \E arg \in DbArgs(op) : DbOperation(op, arg, outcome)

SpecPool == InitOptimizer /\ [][NextPool]_vars

----------------------------------------------------------------------------
(* SchemaAnalyzer, called on enumerated inputs                             *)

\* answers of SHOW TABLES; a failed call answers as an empty database
TableAnswers == {<<>>, <<"customers">>, <<"orders">>, <<"customers", "orders">>}

SchemaTables == {"customers", "orders"}

IdColumn == [name |-> "id", type |-> "int"]

\* answers of DESCRIBE <table>; a failed call answers with no column
ColumnAnswers ==
    {[t \in SchemaTables |-> <<>>],
     [t \in SchemaTables |-> <<IdColumn>>],
     [t \in SchemaTables |-> <<IdColumn, [name |-> "name", type |-> "varchar(100)"]>>]}

\* the analyses that get_schema_context may start in the sequences explored
MaxAnalyses == 2

\* get_schema_context() is called and ends
GetSchemaContext(tables, cols) ==
    LET r == get_schema_context(schema_cache, tables, cols) IN
    /\ r.analysed => scAnalysed < MaxAnalyses
    /\ scCall' = Some([op |-> "get_schema_context", tables |-> tables])
    /\ schema_cache' = r.cache
    /\ scResult' = Some(r.value)
    /\ scDbCalls' = r.calls
    /\ scAnalysed' = scAnalysed + (IF r.analysed THEN 1 ELSE 0)
    /\ UNCHANGED <<genVars, scoreVars, findVars, advVars, askVars, poolVars>>

\* analyze_schema() is called by QueryAssistant.generate_documentation
AnalyzeSchema(tables, cols) ==
    /\ scCall' = Some([op |-> "analyze_schema", tables |-> tables])
    /\ scResult' = Some(analyze_schema(tables, cols).schema)
    /\ scDbCalls' = analyze_schema(tables, cols).calls
    /\ UNCHANGED <<schema_cache, scAnalysed>>
    /\ UNCHANGED <<genVars, scoreVars, findVars, advVars, askVars, poolVars>>

\* is_loaded() is called
IsLoaded ==
    /\ scCall' = Some([op |-> "is_loaded", tables |-> <<>>])
    /\ scResult' = Some(is_loaded(schema_cache))
    /\ scDbCalls' = <<>>
    /\ UNCHANGED <<schema_cache, scAnalysed>>
    /\ UNCHANGED <<genVars, scoreVars, findVars, advVars, askVars, poolVars>>

NextCache ==
    \/ \E tables \in TableAnswers, cols \in ColumnAnswers : GetSchemaContext(tables, cols)
    \/ \E tables \in TableAnswers, cols \in ColumnAnswers : AnalyzeSchema(tables, cols)
    \/ IsLoaded

SpecCache == InitOptimizer /\ [][NextCache]_vars

----------------------------------------------------------------------------
(* Properties of the generation loop, checked under SpecGen                *)

\* The policy test as the claims word it: the normalized (stripped, upper
\* case) text does not start with SELECT and contains a mutating keyword.
GateRejects(q) ==
    LET n == Upper(Strip(q)) IN
    /\ (Len(n) < 6 \/ SubSeq(n, 1, 6) # "SELECT")
    /\ \E w \in {"DROP", "DELETE", "TRUNCATE", "UPDATE", "INSERT"} :
          \E i \in 1..Len(n) : i + Len(w) - 1 <= Len(n) /\ SubSeq(n, i, i + Len(w) - 1) = w

Returned == pc = "Done" /\ ~raised

FirstValid == validation # None /\ validation[1].is_valid
FirstInvalid == validation # None /\ ~validation[1].is_valid

\* every candidate the generation collaborator gave fails validation,
\* whatever the execution collaborator answers
AllCandidatesInvalid ==
    \A i \in 1..Len(aiReturns) : \A o \in ExplainOutcomes, p \in GenPlans :
        ~_validate_query(aiReturns[i], o, p).is_valid

\* C1: when every candidate fails validation, one call of generate makes
\* exactly 2 generation calls (the request and one repair), never more, and
\* returns the second candidate text unchanged.
C1_RepairTerminates ==
    /\ Len(aiPrompts) <= 2
    /\ (pc = "Done" /\ AllCandidatesInvalid) =>
          /\ Len(aiPrompts) = 2
          /\ Len(aiReturns) = 2
          /\ result = Some(aiReturns[2])
          /\ ~raised

C1_Witness ==
    /\ pc = "Done"
    /\ AllCandidatesInvalid
    /\ aiReturns = <<"DROP TABLE customers", "DELETE FROM orders">>
    /\ result = Some("DELETE FROM orders")

\* C2 (as claimed): when the first candidate fails validation, the repaired
\* candidate is validated (policy test, then plan call) before it is returned.
C2_RepairedIsValidated ==
    (Returned /\ FirstInvalid) =>
        /\ Len(validated) = 2
        /\ validated[2] = result[1]

C4_PolicyGate ==
    (validation # None /\ GateRejects(validated[1])) =>
        /\ ~validation[1].is_valid
        /\ validation[1].error # None
        /\ explainCalls = <<>>

C4_Witness ==
    /\ validation # None
    /\ validated = <<"DELETE FROM orders">>
    /\ explainCalls = <<>>

\* C5 (as claimed): the statement generate returns passes the policy test.
C5_ReturnsReadOnly == Returned => ~GateRejects(result[1])

\* C6: generate never raises: whatever fails in the text-generation
\* collaborator (on the request or on the repair) or in the execution
\* collaborator, generate ends returning a statement text.
C6_NeverRaises ==
    /\ ~raised
    /\ pc = "Done" => (result # None /\ result[1] = aiReturns[Len(aiReturns)])

C6_Witness ==
    /\ pc = "Done"
    /\ clientLog = <<"ok", "error">>
    /\ result = Some(MockCustomerSql)

\* C7 (as claimed): when a candidate passes the policy test and the plan call
\* of the execution collaborator fails, the validation fails with an error
\* text and generate issues its repair request.
C7_ExplainFailureInvalid ==
    (Len(explainCalls) >= 1 /\ explainCalls[1].failed /\ validation # None) =>
        /\ ~validation[1].is_valid
        /\ validation[1].error # None
        /\ pc = "Done" => Len(aiPrompts) = 2

\* C8: when the first candidate passes validation, generate ends with one
\* generation call and one plan call, returning the first candidate unchanged.
C8_AcceptedFirst ==
    (pc = "Done" /\ FirstValid) =>
        /\ Len(aiPrompts) = 1
        /\ Len(explainCalls) = 1
        /\ explainCalls[1].query = aiReturns[1]
        /\ result = Some(aiReturns[1])

C8_Witness ==
    /\ pc = "Done"
    /\ FirstValid
    /\ clientLog = <<"ok">>
    /\ result = Some("SELECT id FROM orders")

----------------------------------------------------------------------------
(* Properties of the scorer, checked under SpecScore                       *)

CountSeverity(list, sev) == Cardinality({i \in 1..Len(list) : list[i].severity = sev})

PenaltySum(list) ==
    5 * CountSeverity(list, "low") + 15 * CountSeverity(list, "medium")
        + 30 * CountSeverity(list, "high")

Reverse(list) == [i \in 1..Len(list) |-> list[Len(list) + 1 - i]]

\* C9: the score of an issue list is max(0, 100 - sum of the penalties) with
\* low 5, medium 15, high 30: an integer in 0..100 that depends on how many
\* issues of each severity the list holds and not on their order; the empty
\* list scores 100, one high issue 70, ten high issues 0.
C9_Score ==
    score # None =>
        /\ score[1] = (IF PenaltySum(issues) >= 100 THEN 0 ELSE 100 - PenaltySum(issues))
        /\ score[1] \in 0..100
        /\ score[1] = _calculate_query_score(Reverse(issues))
        /\ issues = <<>> => score[1] = 100
        /\ (Len(issues) = 1 /\ issues[1].severity = "high") => score[1] = 70
        /\ (Len(issues) = 10 /\ \A i \in 1..10 : issues[i].severity = "high") => score[1] = 0

C9_Witness ==
    /\ score = Some(0)
    /\ Len(issues) = 10
    /\ \A i \in 1..10 : issues[i].severity = "high"

----------------------------------------------------------------------------
(* Properties of the detector, checked under SpecFind                      *)

IssueTypes(list) == {list[i].type : i \in 1..Len(list)}

\* C10 (as claimed): _find_issues returns a list for every text and every
\* plan, also one with steps whose table is null or whose Extra is absent or
\* null; on an empty plan the list holds no table_scan, filesort or
\* temporary_table issue, and the two text rules still apply.
C10_DetectionNeverRaises ==
    fiResult # None =>
        /\ ~fiResult[1].raised
        /\ fiPlan = <<>> =>
              /\ IssueTypes(fiResult[1].issues) \subseteq {"select_all", "no_where"}
              /\ fiQuery = "SELECT * FROM customers" =>
                    IssueTypes(fiResult[1].issues) = {"select_all", "no_where"}

\* SELECT, white space, * stands in s from position i to position j
StarMatch(s, i, j) ==
    /\ i >= 1 /\ j <= Len(s) /\ j >= i + 7
    /\ Upper(SubSeq(s, i, i + 5)) = "SELECT"
    /\ \A k \in (i + 6)..(j - 1) : Ch(s, k) \in {" ", "\n", "\t", "\r", "\f"}
    /\ Ch(s, j) = "*"

StarStarts(s, from) == {i \in from..Len(s) : \E j \in i..Len(s) : StarMatch(s, i, j)}

Count(list, kind) == Cardinality({i \in 1..Len(list) : list[i].type = kind})

\* C12: on an empty plan, a text that holds SELECT, white space, * (any
\* casing, one white space character at least) gets exactly one select_all
\* issue, however often the pattern occurs; any other text gets none.
C12_SelectAllOnce ==
    (fiResult # None /\ fiPlan = <<>>) =>
        /\ ~fiResult[1].raised
        /\ Count(fiResult[1].issues, "select_all") =
              (IF StarStarts(fiQuery, 1) # {} THEN 1 ELSE 0)

C12_Witness ==
    /\ fiQuery = "SELECT * FROM a UNION SELECT * FROM b"
    /\ Cardinality(StarStarts(fiQuery, 1)) = 2
    /\ fiPlan = <<>>
    /\ fiResult = Some([raised |-> FALSE, issues |-> <<SelectAllIssue, NoWhereIssue>>])

\* the keyword kw stands at position i of s as a word of its own
WordAt(s, i, kw) ==
    /\ i + Len(kw) - 1 <= Len(s)
    /\ Upper(SubSeq(s, i, i + Len(kw) - 1)) = kw
    /\ (i = 1 \/ ~IsWord(Ch(s, i - 1)))
    /\ (i + Len(kw) > Len(s) \/ ~IsWord(Ch(s, i + Len(kw))))

\* FROM, white space, an identifier
HasFromClause(s) ==
    \E i \in 1..Len(s), j \in 1..Len(s) :
        /\ WordAt(s, i, "FROM")
        /\ j >= i + 5
        /\ \A k \in (i + 4)..(j - 1) : Ch(s, k) \in {" ", "\n", "\t", "\r", "\f"}
        /\ IsWord(Ch(s, j))

HasWhereKeyword(s) == \E i \in 1..Len(s) : WordAt(s, i, "WHERE")

\* C13 (as claimed): exactly one no_where issue when the text has a FROM
\* <identifier> clause and no WHERE keyword, none otherwise.
C13_NoWhereOnce ==
    (fiResult # None /\ ~fiResult[1].raised) =>
        Count(fiResult[1].issues, "no_where") =
            (IF HasFromClause(fiQuery) /\ ~HasWhereKeyword(fiQuery) THEN 1 ELSE 0)

FullScan(step) == "type" \in DOMAIN step /\ step.type = <<"ALL">>

HasFlag(step, flag) ==
    /\ "Extra" \in DOMAIN step
    /\ step.Extra # <<>>
    /\ \E i \in 1..Len(step.Extra[1]) :
          /\ i + Len(flag) - 1 <= Len(step.Extra[1])
          /\ SubSeq(step.Extra[1], i, i + Len(flag) - 1) = flag

\* the table_scan issues of a list, in order
RECURSIVE ScanIssues(_)
ScanIssues(list) ==
    IF Len(list) = 0 THEN <<>>
    ELSE (IF Head(list).type = "table_scan" THEN <<Head(list)>> ELSE <<>>)
            \o ScanIssues(Tail(list))

\* the full-scan steps of a plan, in order
RECURSIVE FullScanSteps(_)
FullScanSteps(plan) ==
    IF Len(plan) = 0 THEN <<>>
    ELSE (IF FullScan(Head(plan)) THEN <<Head(plan)>> ELSE <<>>)
            \o FullScanSteps(Tail(plan))

TableOf(step) == IF "table" \in DOMAIN step THEN step.table ELSE <<>>

\* C14 (as claimed): for every plan the detector returns one table_scan
\* issue per full-scan step, carrying the step's table, one filesort issue
\* per step whose extra text holds "Using filesort" and one temporary_table
\* issue per step whose extra text holds "Using temporary".
C14_PerStepRules ==
    fiResult # None =>
        LET found == fiResult[1].issues
            scans == ScanIssues(found)
            steps == FullScanSteps(fiPlan)
            Flagged(flag) == Cardinality({i \in 1..Len(fiPlan) : HasFlag(fiPlan[i], flag)})
        IN /\ ~fiResult[1].raised
           /\ Len(scans) = Len(steps)
           /\ \A i \in 1..Len(scans) : scans[i].table = TableOf(steps[i])
           /\ Count(found, "filesort") = Flagged("Using filesort")
           /\ Count(found, "temporary_table") = Flagged("Using temporary")

RuleRank(kind) ==
    CASE kind = "select_all" -> 1
      [] kind = "no_where" -> 2
      [] kind = "table_scan" -> 3
      [] kind = "filesort" -> 4
      [] kind = "temporary_table" -> 5

\* every returned list is in rule order, table scans in plan-step order
C15_RuleOrder ==
    (fiResult # None /\ ~fiResult[1].raised) =>
        LET found == fiResult[1].issues
            scans == ScanIssues(found)
            steps == FullScanSteps(fiPlan)
        IN /\ \A i, j \in 1..Len(found) :
                 i < j => RuleRank(found[i].type) <= RuleRank(found[j].type)
           /\ Len(scans) = Len(steps)
           /\ \A i \in 1..Len(scans) : scans[i].table = TableOf(steps[i])

\* a call with the text and the plan of the call before it ends as it did
C15_SameCall ==
    (fiResult # None /\ fiQuery' = fiQuery /\ fiPlan' = fiPlan) => fiResult' = fiResult

\* C15: the detector is a function of the text and the plan, and a returned
\* list holds the issues in the order select_all, no_where, table_scan (in
\* plan-step order), filesort, temporary_table.
C15_OrderStable == []C15_RuleOrder /\ [][C15_SameCall]_vars

C15_Witness ==
    /\ fiQuery = "SELECT * FROM customers"
    /\ fiResult # None /\ ~fiResult[1].raised
    /\ Len(fiPlan) = 2
    /\ fiPlan[1].table = <<"items">> /\ fiPlan[2].table = <<>>
    /\ [i \in 1..6 |-> fiResult[1].issues[i].type] =
          <<"select_all", "no_where", "table_scan", "table_scan", "filesort",
            "temporary_table">>
    /\ fiResult[1].issues[3].table = <<"items">>
    /\ fiResult[1].issues[4].table = <<>>

----------------------------------------------------------------------------
(* Properties of the rewriter, checked under SpecRewrite                   *)

FirstStart(s, from) ==
    CHOOSE i \in StarStarts(s, from) : \A k \in StarStarts(s, from) : i <= k

StarEnd(s, i) == CHOOSE j \in i..Len(s) : StarMatch(s, i, j)

DefaultColumns == "SELECT id, name, created_at"

\* s with its first SELECT * replaced by the default column list
FirstStarReplaced(s) ==
    IF StarStarts(s, 1) = {} THEN s
    ELSE LET i == FirstStart(s, 1) IN
         SubSeq(s, 1, i - 1) \o DefaultColumns \o SubSeq(s, StarEnd(s, i) + 1, Len(s))

\* s from position `from' on, with every SELECT * replaced
RECURSIVE AllStarsReplaced(_, _)
AllStarsReplaced(s, from) ==
    IF StarStarts(s, from) = {} THEN SubSeq(s, from, Len(s))
    ELSE LET i == FirstStart(s, from) IN
         SubSeq(s, from, i - 1) \o DefaultColumns \o AllStarsReplaced(s, StarEnd(s, i) + 1)

HasIssue(list, kind) == kind \in {list[i].type : i \in 1..Len(list)}

\* C16: with an issue list that holds neither a select_all nor a no_where
\* issue (the empty list, or plan issues only) the rewritten text is the
\* statement text itself.
C16_RewriteNoOp ==
    (rwResult # None /\ ~HasIssue(rwIssues, "select_all") /\ ~HasIssue(rwIssues, "no_where"))
        => rwResult[1] = rwQuery

C16_Witness ==
    /\ rwResult = Some("SELECT * FROM customers")
    /\ rwQuery = "SELECT * FROM customers"
    /\ rwIssues = <<TableScanIssue(FullScanStep), FilesortIssue>>

\* C17 (as claimed): with a select_all issue, only the first SELECT * of the
\* statement is replaced by the default column list; later ones stay.
C17_FirstStarOnly ==
    (rwResult # None /\ HasIssue(rwIssues, "select_all")) =>
        rwResult[1] \in {FirstStarReplaced(rwQuery),
                         FirstStarReplaced(rwQuery) \o " LIMIT 1000"}

\* C17 (amended): with a select_all issue, every SELECT * of the statement
\* (left to right, in a subquery too) is replaced by the default column
\* list, so that none remains.
C17_EveryStarReplaced ==
    (rwResult # None /\ HasIssue(rwIssues, "select_all")) =>
        /\ rwResult[1] \in {AllStarsReplaced(rwQuery, 1),
                            AllStarsReplaced(rwQuery, 1) \o " LIMIT 1000"}
        /\ ~HasIssue(rwIssues, "no_where") => rwResult[1] = AllStarsReplaced(rwQuery, 1)
        /\ StarStarts(rwResult[1], 1) = {}

C17_Witness ==
    /\ rwQuery = "SELECT * FROM a WHERE x IN (SELECT * FROM b)"
    /\ rwIssues = <<SelectAllIssue>>
    /\ rwResult =
          Some("SELECT id, name, created_at FROM a WHERE x IN (SELECT id, name, created_at FROM b)")

\* the keyword LIMIT stands in s as a word of its own
HasLimitClause(s) ==
    \E i \in 1..(Len(s) - 4) :
        /\ Upper(SubSeq(s, i, i + 4)) = "LIMIT"
        /\ (i = 1 \/ ~IsWord(Ch(s, i - 1)))
        /\ (i + 5 > Len(s) \/ ~IsWord(Ch(s, i + 5)))

\* C18 (as claimed): LIMIT 1000 is appended exactly when a no_where issue is
\* present and the statement has no LIMIT clause; otherwise nothing is
\* appended; the column list and the LIMIT may be applied in either order.
C18_LimitAppended ==
    rwResult # None =>
        LET star == HasIssue(rwIssues, "select_all")
            limit == HasIssue(rwIssues, "no_where") /\ ~HasLimitClause(rwQuery)
            columnsFirst == IF star THEN AllStarsReplaced(rwQuery, 1) ELSE rwQuery
            limitFirst == IF limit THEN rwQuery \o " LIMIT 1000" ELSE rwQuery
        IN /\ rwResult[1] = (IF limit THEN columnsFirst \o " LIMIT 1000" ELSE columnsFirst)
           /\ rwResult[1] = (IF star THEN AllStarsReplaced(limitFirst, 1) ELSE limitFirst)

----------------------------------------------------------------------------
(* Properties of the index advisor, checked under SpecIndex                *)

\* the sequences that list each member of S once
Orderings(S) ==
    {p \in [1..Cardinality(S) -> S] : \A c \in S : \E i \in 1..Cardinality(S) : p[i] = c}

\* the sequences that list some members of S, one at least, each once
Selections(S) == UNION {Orderings(T) : T \in (SUBSET S) \ {{}}}

RECURSIVE Joined(_, _)
Joined(parts, sep) ==
    IF Len(parts) = 1 THEN parts[1] ELSE parts[1] \o sep \o Joined(Tail(parts), sep)

\* CREATE INDEX idx_<table>_<name> ON <table>(<col1>, <col2>, ...);
IndexText(name, table, cols) ==
    "CREATE INDEX idx_" \o table \o "_" \o name \o " ON " \o table
        \o "(" \o Joined(cols, ", ") \o ");"

TablesOf(q) == FindAll("tables", q, 1)

C20_NameFromColumns ==
    ixResult # None =>
        \A i \in 1..Len(ixResult[1]) :
            \E t \in Range(TablesOf(ixQuery)),
               cols \in Selections(ColumnSet(ixQuery) \cup OrderSet(ixQuery)) :
                ixResult[1][i] = IndexText(Joined(cols, "_"), t, cols)

\* C20 (amended): a filter or join suggestion is CREATE INDEX
\* idx_<table>_<column> ON <table>(<column>); and the ORDER BY suggestion is
\* CREATE INDEX idx_<table>_order ON <table>(<order columns joined by ", ">);
\* its name does not hold the columns.
C20_SuggestionForm ==
    ixResult # None =>
        \A i \in 1..Len(ixResult[1]) :
            \E t \in Range(TablesOf(ixQuery)) :
                \/ \E c \in ColumnSet(ixQuery) : ixResult[1][i] = IndexText(c, t, <<c>>)
                \/ /\ OrderSet(ixQuery) # {}
                   /\ \E p \in Orderings(OrderSet(ixQuery)) :
                          ixResult[1][i] = IndexText("order", t, p)

C20_Witness ==
    /\ ixQuery = "SELECT * FROM orders WHERE customer_id = 5 ORDER BY order_date"
    /\ ixResult = Some(<<"CREATE INDEX idx_orders_customer_id ON orders(customer_id);",
                         "CREATE INDEX idx_orders_order ON orders(order_date);">>)

----------------------------------------------------------------------------
(* Properties of analyze and optimize, checked under SpecOpt               *)

ReportKeys(op) ==
    IF op = "analyze" THEN {"query", "issues", "execution_plan", "score"}
    ELSE {"original_query", "optimized_query", "issues_found", "index_suggestions",
          "ai_recommendations", "execution_plan"}

IssuesOfReport(op, report) == IF op = "analyze" THEN report.issues ELSE report.issues_found

\* C11 (as claimed): analyze and optimize always return a report with all
\* its fields; when EXPLAIN fails the report's plan is empty and its issues
\* come from the text rules only; when the remote client fails, the advice
\* of optimize is "Optimization advice unavailable.".
C11_NeverRaise ==
    opResult # None =>
        /\ ~opResult[1].raised
        /\ opResult[1].report # None
        /\ LET call == opCall[1]
               report == opResult[1].report[1]
           IN /\ DOMAIN report = ReportKeys(call.op)
              /\ call.explain # "plan" =>
                    /\ report.execution_plan = <<>>
                    /\ \A i \in 1..Len(IssuesOfReport(call.op, report)) :
                          IssuesOfReport(call.op, report)[i].type \in {"select_all", "no_where"}
              /\ call.advice = "error" => report.ai_recommendations = "Optimization advice unavailable."

\* a full-scan step on the table whose extra text, if any, holds no flag
PlainFullScan(step, table) ==
    /\ FullScan(step)
    /\ TableOf(step) = <<table>>
    /\ ~HasFlag(step, "Using filesort") /\ ~HasFlag(step, "Using temporary")

TypesOf(list) == [i \in 1..Len(list) |-> list[i].type]

\* C21 (as claimed): on SELECT * FROM customers, EXPLAIN answering with one
\* full-scan step on customers, optimize and analyze report the issues
\* select_all, no_where, table_scan in that order, analyze scores them 25,
\* and optimize rewrites the statement to the default column list FROM
\* customers followed by LIMIT 1000.
C21_EndToEnd ==
    (/\ opResult # None
     /\ opCall[1].query = "SELECT * FROM customers"
     /\ opCall[1].explain = "plan"
     /\ Len(opCall[1].rows) = 1
     /\ PlainFullScan(opCall[1].rows[1], "customers"))
        => /\ ~opResult[1].raised
           /\ opResult[1].report # None
           /\ LET report == opResult[1].report[1] IN
              IF opCall[1].op = "analyze"
              THEN /\ TypesOf(report.issues) = <<"select_all", "no_where", "table_scan">>
                   /\ report.score = 25
              ELSE /\ TypesOf(report.issues_found) = <<"select_all", "no_where", "table_scan">>
                   /\ report.optimized_query =
                          "SELECT id, name, created_at FROM customers LIMIT 1000"

Fn(calls) == [i \in 1..Len(calls) |-> calls[i].fn]

\* what the report of a call says its statement was
StatementOf(op, report) == IF op = "analyze" THEN report.query ELSE report.original_query

\* each call fetches the plan once and executes nothing, analyze asks for
\* no advice, and a report carries the statement it was given
C22_OneFetch ==
    opResult # None =>
        /\ Len(opResult[1].calls) >= 1
        /\ opResult[1].calls[1] = [fn |-> "db_manager.explain_query", query |-> opCall[1].query]
        /\ \A i \in 2..Len(opResult[1].calls) :
              /\ opCall[1].op = "optimize"
              /\ i = 2
              /\ opResult[1].calls[i].fn = "ai_service.get_optimization_advice"
        /\ opResult[1].report # None =>
              StatementOf(opCall[1].op, opResult[1].report[1]) = opCall[1].query

\* a call with the entry point, the text and the collaborator answers of
\* the call before it ends as that call did
C22_SameCall == (opCall # None /\ opCall' = opCall) => opResult' = opResult

\* C22: in a sequence of analyze and optimize calls, every call reaches the
\* database through one explain_query call only, analyze makes no
\* text-generation call, and a call repeated with the same text and the same
\* collaborator answers gives the same report, whose statement is the input.
C22_Idempotent == []C22_OneFetch /\ [][C22_SameCall]_vars

C22_Witness ==
    /\ opCall # None /\ opCall[1].op = "optimize"
    /\ opCall[1].query =
          "SELECT * FROM orders o JOIN customers c ON o.customer_id = c.id WHERE status = 'open'"
    /\ setOrders = {<<"status", "customer_id">>}
    /\ opResult[1].report # None
    /\ Len(opResult[1].report[1].index_suggestions) = 2
    /\ Fn(opResult[1].calls) =
          <<"db_manager.explain_query", "ai_service.get_optimization_advice">>

----------------------------------------------------------------------------
(* Properties of ask, checked under SpecAsk                                *)

\* the analysis of the call ends by an exception: EXPLAIN answered with a
\* step whose Extra is null
AnalysisFails(call) ==
    /\ call.explain = "plan"
    /\ \E i \in 1..Len(call.rows) :
          "Extra" \in DOMAIN call.rows[i] /\ call.rows[i].Extra = <<>>

\* C23 (as claimed): when the execution of the generated query and the
\* analysis succeed (schema loading, generation and explanation always do),
\* ask returns success = True with the generated query and row_count equal
\* to the number of result rows; it returns success = False only when a
\* step failed.
C23_AskSucceeds ==
    askResult # None =>
        LET call == askCall[1]
            fails == call.exec.raised \/ AnalysisFails(call)
        IN /\ ~fails =>
                /\ askResult[1].success
                /\ askResult[1].query = call.query
                /\ askResult[1].row_count = call.exec.rows
           /\ ~askResult[1].success => fails

----------------------------------------------------------------------------
(* Properties of the connection pool, checked under SpecPool               *)

\* C25 (as claimed): after any sequence of DatabaseManager operations,
\* failing or not, no connection of the pool is checked out.
C25_AllReleased == dbCall # None => checked_out = 0

----------------------------------------------------------------------------
(* Properties of the schema cache, checked under SpecCache                 *)

\* at most one analysis is started through get_schema_context; the cache is
\* empty exactly before it; is_loaded says whether it has happened
C26_AnalysedOnce ==
    /\ scAnalysed <= 1
    /\ (schema_cache = <<>>) <=> (scAnalysed = 0)
    /\ (scCall # <<>> /\ scCall[1].op = "is_loaded") => scResult = <<scAnalysed = 1>>
    /\ (scCall # <<>> /\ scCall[1].op = "get_schema_context") => scResult = schema_cache

\* a filled cache is never changed, and get_schema_context answers from it
\* without a database call
C26_ServedFromCache ==
    schema_cache # <<>> =>
        /\ schema_cache' = schema_cache
        /\ (scCall' # <<>> /\ scCall'[1].op = "get_schema_context") =>
              /\ scDbCalls' = <<>>
              /\ scResult' = schema_cache

\* C26: over sequential get_schema_context calls the database is analysed by
\* the first call only, also when it has no tables; later calls return the
\* cached schema without a database call; is_loaded is false before the
\* first call and true after it; nothing empties or replaces the cache.
C26_SchemaCache == []C26_AnalysedOnce /\ [][C26_ServedFromCache]_vars

\* a second call is answered from the cache of an empty database although
\* the database now has a table
C26_Witness ==
    /\ scCall = <<[op |-> "get_schema_context", tables |-> <<"customers">>]>>
    /\ schema_cache = <<[tables |-> <<>>]>>
    /\ scResult = schema_cache
    /\ scDbCalls = <<>>
    /\ scAnalysed = 1

----------------------------------------------------------------------------
(* Detection after rewriting, checked under SpecFind                       *)

\* the text rewritten from the statement and the issues detected in it
Rewritten == _generate_optimized_query(fiQuery, fiResult[1].issues)

\* detecting again in the rewritten text, with the same plan, and rewriting
\* again: no select_all issue, a no_where issue exactly when the first
\* detection had one, and the same text
SecondPassStable ==
    LET again == _find_issues(Rewritten, fiPlan) IN
    /\ ~again.raised
    /\ ~HasIssue(again.issues, "select_all")
    /\ HasIssue(again.issues, "no_where") <=> HasIssue(fiResult[1].issues, "no_where")
    /\ _generate_optimized_query(Rewritten, again.issues) = Rewritten
    /\ StarStarts(Rewritten, 1) = {}
    /\ HasIssue(again.issues, "no_where") =>
          Cardinality({i \in 1..Len(Rewritten) : WordAt(Rewritten, i, "LIMIT")}) = 1

\* C24: for every statement text and plan, rewriting the statement from its
\* detected issues gives a text in which detection finds no select_all
\* issue and a no_where issue exactly when it did before, and which
\* rewriting leaves as it is.
C24_FixedPoint ==
    fiResult # None => (~fiResult[1].raised /\ SecondPassStable)

\* C24 on the plans for which detection returns a list
C24_FixedPointWhenReturned ==
    (fiResult # None /\ ~fiResult[1].raised) => SecondPassStable

\* a statement with two SELECT * and no WHERE: both are replaced and one
\* LIMIT is appended by the first pass, nothing by the second
C24_Rewritten ==
    /\ fiQuery = "SELECT * FROM a UNION SELECT * FROM b"
    /\ fiResult # None /\ ~fiResult[1].raised
    /\ Len(fiPlan) = 1
    /\ Rewritten = "SELECT id, name, created_at FROM a UNION SELECT id, name, created_at FROM b LIMIT 1000"

====
